---- MODULE Spec2Model ----
(***************************************************************************)
(* Typography Flow: the state of the Home component (pages/index.tsx), its *)
(* ramp calculators, its three export generators and its event handlers.   *)
(*                                                                         *)
(* Number representation.  JavaScript numbers are modelled as integers in  *)
(* a fixed unit per field:                                                 *)
(*   pixel values (baseFontSize, minFontSize, maxFontSize, custom sizes,   *)
(*     every "<n>px" a document or the preview states)   tenths of a pixel *)
(*   scaleRatio, baseLineHeight, spacings                tenths            *)
(*   mobileScaleFactor, tabletScaleFactor                hundredths        *)
(*   font weights, breakpoints                           units             *)
(* so 16px is 160, 16.5px is 165, ratio 1.2 is 12 and factor 0.75 is 75.   *)
(* Math.round is computed exactly on the quotient (round half up).         *)
(***************************************************************************)
EXTENDS Integers, Sequences, FiniteSets, TLC

VARIABLES settings, activeTab, exportFormat, copySuccess, previewViewport,
          importMarkdownOpen, exportDialogOpen, markdownInput,
          visualizationMode, previewContent,
          conversions, alerts, consoleErrors, clipboardWrites, clipboard,
          copyTimers

vars == <<settings, activeTab, exportFormat, copySuccess, previewViewport,
          importMarkdownOpen, exportDialogOpen, markdownInput,
          visualizationMode, previewContent,
          conversions, alerts, consoleErrors, clipboardWrites, clipboard,
          copyTimers>>

uiVars == <<activeTab, exportFormat, copySuccess, previewViewport,
            importMarkdownOpen, exportDialogOpen, markdownInput,
            visualizationMode, previewContent>>

\* The environment of the component: markdown conversions in flight (each
\* the text it was started with), alerts and console errors raised so far,
\* clipboard writes in flight, the clipboard, and pending copySuccess timers.
envVars == <<conversions, alerts, consoleErrors, clipboardWrites, clipboard,
             copyTimers>>

----------------------------------------------------------------------------
(* Arithmetic *)

\* Math.round(n / d) for d > 0: the nearest integer, halves rounded up.
MathRound(n, d) == (2 * n + d) \div (2 * d)

\* A whole number of pixels in the unit of pixel values (tenths).
Px(n) == 10 * n

\* Math.pow(b, e) for a natural exponent e, on the numerator of b.
RECURSIVE Pow(_, _)
Pow(b, e) == IF e = 0 THEN 1 ELSE b * Pow(b, e - 1)

\* Array.prototype.map over a sequence.
Map(F(_), xs) == [i \in 1..Len(xs) |-> F(xs[i])]

----------------------------------------------------------------------------
(* Types *)

ViewportSize == {"mobile", "tablet", "desktop"}

VisualizationMode == {"none", "spacing"}

ExportFormat == {"css", "sass", "figma"}

Tabs == {"basic", "fonts", "ramps", "spacing", "responsive"}

HeadingLevels == 1..6

----------------------------------------------------------------------------
(* Font weight ramp algorithms *)

SteppedWeights == <<700, 700, 600, 600, 500, 400>>

\* LinearRamp with the range divided into six steps instead of five.
LinearRampSixths(min, max, den) ==
    << MathRound(6 * max, 6 * den),
       MathRound(6 * max - (max - min), 6 * den),
       MathRound(6 * max - 2 * (max - min), 6 * den),
       MathRound(6 * max - 3 * (max - min), 6 * den),
       MathRound(6 * max - 4 * (max - min), 6 * den),
       MathRound(6 * min, 6 * den) >>

LinearRamp(min, max, den) ==
    \* step = (max - min) / 5; round(max - k * step) = round((5 max - k (max - min)) / 5)
    << MathRound(5 * max, 5 * den),
       MathRound(5 * max - (max - min), 5 * den),
       MathRound(5 * max - 2 * (max - min), 5 * den),
       MathRound(5 * max - 3 * (max - min), 5 * den),
       MathRound(5 * max - 4 * (max - min), 5 * den),
       MathRound(5 * min, 5 * den) >>

\* weightStepped without the useWeightRamp test.
weightSteppedUnguarded(s) == s.customWeightRampValues

weightStepped(s) ==
    IF s.useWeightRamp THEN s.customWeightRampValues ELSE SteppedWeights

\* weightLinear without the useWeightRamp guard.
weightLinearUnguarded(s) ==
    LinearRamp(s.minFontWeight, s.maxFontWeight, 1)

weightLinear(s) ==
    IF ~s.useWeightRamp THEN SteppedWeights
    ELSE LinearRamp(s.minFontWeight, s.maxFontWeight, 1)

weightCustom(s) ==
    IF s.useWeightRamp THEN s.customWeightRampValues ELSE SteppedWeights

weightRampAlgorithms == {"stepped", "linear", "custom"}

calculateWeights(algorithm, s) ==
    CASE algorithm = "stepped" -> weightStepped(s)
      [] algorithm = "linear"  -> weightLinear(s)
      [] algorithm = "custom"  -> weightCustom(s)

----------------------------------------------------------------------------
(* Ramp algorithms.  Each returns six pixel values (tenths of a pixel). *)

\* baseFontSize * Math.pow(scaleRatio, e) as the fraction num / den of a pixel.
modularTerm(s, e) ==
    [ num |-> s.baseFontSize * Pow(s.scaleRatio, e), den |-> 10 * Pow(10, e) ]

\* modularSize with the exponent one too high.
modularSizeShifted(s, e) ==
    Px(MathRound(s.baseFontSize * Pow(s.scaleRatio, e + 1), 10 * Pow(10, e + 1)))

modularSize(s, e) ==
    \* Math.round(baseFontSize * Math.pow(scaleRatio, e))
    LET term == modularTerm(s, e)
    IN  Px(MathRound(term.num, term.den))

\* The six arguments rampModular hands to Math.round, as fractions of a pixel.
modularUnrounded(s) ==
    << modularTerm(s, 4),
       modularTerm(s, 3),
       modularTerm(s, 2),
       modularTerm(s, 1),
       [ num |-> s.baseFontSize, den |-> 10 ],
       [ num |-> s.baseFontSize * 9, den |-> 100 ] >>

rampModular(s) ==
    << modularSize(s, 4),
       modularSize(s, 3),
       modularSize(s, 2),
       modularSize(s, 1),
       Px(MathRound(s.baseFontSize, 10)),
       Px(MathRound(s.baseFontSize * 9, 100)) >>

rampLinear(s) ==
    Map(Px, LinearRamp(s.minFontSize, s.maxFontSize, 10))

fibRatios == <<8, 5, 3, 2, 1, 1>>

\* rampFibonacci reading the ratio table one place further up the sequence.
rampFibonacciShifted(s) ==
    LET baseSize == s.baseFontSize
        size(ratio) == Px(MathRound(baseSize * ratio, 30))
    IN  Map(size, <<13, 8, 5, 3, 2, 1>>)

\* rampFibonacci with the ratio table in ascending order.
rampFibonacciAscending(s) ==
    LET baseSize == s.baseFontSize
        size(ratio) == Px(MathRound(baseSize * ratio, 30))
    IN  Map(size, <<1, 1, 2, 3, 5, 8>>)

rampFibonacci(s) ==
    LET baseSize == s.baseFontSize
        size(ratio) == Px(MathRound(baseSize * ratio, 30))
    IN  Map(size, fibRatios)

rampCustom(s) == s.customRampValues

rampAlgorithms == {"modular", "linear", "fibonacci", "custom"}

calculateSizes(algorithm, s) ==
    CASE algorithm = "modular"   -> rampModular(s)
      [] algorithm = "linear"    -> rampLinear(s)
      [] algorithm = "fibonacci" -> rampFibonacci(s)
      [] algorithm = "custom"    -> rampCustom(s)

----------------------------------------------------------------------------
(* Default state *)

defaultSettings ==
    [ baseFontSize            |-> 160,
      baseLineHeight          |-> 15,
      scaleRatio              |-> 12,
      paragraphSpacing        |-> 15,
      headingSpacing          |-> 10,
      listSpacing             |-> 10,
      rampAlgorithm           |-> "modular",
      minFontSize             |-> 140,
      maxFontSize             |-> 480,
      customRampValues        |-> <<480, 360, 240, 200, 160, 140>>,
      responsiveScaling       |-> TRUE,
      mobileScaleFactor       |-> 75,
      tabletScaleFactor       |-> 90,
      breakpointMobile        |-> 480,
      breakpointTablet        |-> 768,
      fontFamily              |-> "Inter",
      headingFontFamily       |-> "Inter",
      useSeparateHeadingFont  |-> FALSE,
      baseFontWeight          |-> 400,
      fontWeightRampAlgorithm |-> "stepped",
      minFontWeight           |-> 400,
      maxFontWeight           |-> 700,
      customWeightRampValues  |-> <<700, 700, 600, 600, 500, 400>>,
      useWeightRamp           |-> TRUE ]

defaultPreviewContent == "defaultPreviewContent"

----------------------------------------------------------------------------
(* Values derived from the state on every render *)

\* getScaleFactor without the responsiveScaling tests.
getScaleFactorAlways(viewport) ==
    CASE viewport = "mobile"  -> settings.mobileScaleFactor
      [] viewport = "tablet"  -> settings.tabletScaleFactor
      [] viewport = "desktop" -> 100
      [] OTHER -> 100

\* Scale factor (hundredths) based on viewport.
getScaleFactor(viewport) ==
    CASE viewport = "mobile" ->
           IF settings.responsiveScaling THEN settings.mobileScaleFactor ELSE 100
      [] viewport = "tablet" ->
           IF settings.responsiveScaling THEN settings.tabletScaleFactor ELSE 100
      [] viewport = "desktop" -> 100
      [] OTHER -> 100

calculateSizesForViewport(viewport) ==
    LET scaleFactor == getScaleFactor(viewport)
        baseHeadingSizes == calculateSizes(settings.rampAlgorithm, settings)
        scaled(size) == Px(MathRound(size * scaleFactor, 1000))
    IN  Map(scaled, baseHeadingSizes)

headingSizes == calculateSizesForViewport(previewViewport)

calculateFontWeights ==
    calculateWeights(settings.fontWeightRampAlgorithm, settings)

headingWeights == calculateFontWeights

\* desktopSizes taken from the viewport being previewed.
desktopSizesOfPreview == calculateSizesForViewport(previewViewport)

desktopSizes == calculateSizesForViewport("desktop")

tabletSizes == calculateSizesForViewport("tablet")

mobileSizes == calculateSizesForViewport("mobile")

\* Width of the preview pane: a pixel width, or <<>> for '100%'.
getPreviewWidth ==
    CASE previewViewport = "mobile"  -> <<375>>
      [] previewViewport = "tablet"  -> <<768>>
      [] previewViewport = "desktop" -> <<>>
      [] OTHER -> <<>>

\* The CSS variables the preview pane is rendered with.
previewStyles ==
    [ baseFontSize   |-> Px(MathRound(settings.baseFontSize
                                        * getScaleFactor(previewViewport), 1000)),
      baseLineHeight |-> settings.baseLineHeight,
      sizes          |-> headingSizes,
      weights        |-> headingWeights,
      bodyWeight     |-> settings.baseFontWeight,
      width          |-> getPreviewWidth ]

----------------------------------------------------------------------------
(* Export generators.  A document is modelled by the declarations it       *)
(* states, in the order the text states them.                              *)

exportBaseFontSizes ==
    [ desktop |-> settings.baseFontSize,
      tablet  |-> Px(MathRound(settings.baseFontSize * settings.tabletScaleFactor, 1000)),
      mobile  |-> Px(MathRound(settings.baseFontSize * settings.mobileScaleFactor, 1000)) ]

exportFontWeights ==
    IF settings.useWeightRamp
    THEN calculateWeights(settings.fontWeightRampAlgorithm, settings)
    ELSE SteppedWeights

\* generateCSSCode writing the desktop media query before the tablet one.
generateCSSCodeDesktopFirst ==
    LET base == exportBaseFontSizes
        fontWeights == exportFontWeights
    IN  [ format |-> "css",
          rules  |->
            IF settings.responsiveScaling
            THEN << [ label |-> "Mobile styles", minWidth |-> <<>>,
                      baseFontSize |-> base.mobile, sizes |-> mobileSizes,
                      weights |-> fontWeights,
                      bodyWeight |-> <<settings.baseFontWeight>> ],
                    [ label |-> "Desktop styles",
                      minWidth |-> <<settings.breakpointTablet>>,
                      baseFontSize |-> base.desktop, sizes |-> desktopSizes,
                      weights |-> <<>>, bodyWeight |-> <<>> ],
                    [ label |-> "Tablet styles",
                      minWidth |-> <<settings.breakpointMobile>>,
                      baseFontSize |-> base.tablet, sizes |-> tabletSizes,
                      weights |-> <<>>, bodyWeight |-> <<>> ] >>
            ELSE << [ label |-> "", minWidth |-> <<>>,
                      baseFontSize |-> settings.baseFontSize,
                      sizes |-> desktopSizes,
                      weights |-> fontWeights,
                      bodyWeight |-> <<settings.baseFontWeight>> ] >> ]

generateCSSCode ==
    LET base == exportBaseFontSizes
        fontWeights == exportFontWeights
    IN  [ format |-> "css",
          rules  |->
            IF settings.responsiveScaling
            THEN << [ label |-> "Mobile styles", minWidth |-> <<>>,
                      baseFontSize |-> base.mobile, sizes |-> mobileSizes,
                      weights |-> fontWeights,
                      bodyWeight |-> <<settings.baseFontWeight>> ],
                    [ label |-> "Tablet styles",
                      minWidth |-> <<settings.breakpointMobile>>,
                      baseFontSize |-> base.tablet, sizes |-> tabletSizes,
                      weights |-> <<>>, bodyWeight |-> <<>> ],
                    [ label |-> "Desktop styles",
                      minWidth |-> <<settings.breakpointTablet>>,
                      baseFontSize |-> base.desktop, sizes |-> desktopSizes,
                      weights |-> <<>>, bodyWeight |-> <<>> ] >>
            ELSE << [ label |-> "", minWidth |-> <<>>,
                      baseFontSize |-> settings.baseFontSize,
                      sizes |-> desktopSizes,
                      weights |-> fontWeights,
                      bodyWeight |-> <<settings.baseFontWeight>> ] >> ]

generateSASSCode ==
    LET base == exportBaseFontSizes
        fontWeights == exportFontWeights
    IN  [ format |-> "sass",
          breakpointMobile |-> settings.breakpointMobile,
          breakpointTablet |-> settings.breakpointTablet,
          bodyWeight |-> settings.baseFontWeight,
          weights |-> fontWeights,
          variables |->
            IF settings.responsiveScaling
            THEN << [ suffix |-> "-mobile", baseFontSize |-> base.mobile,
                      sizes |-> mobileSizes ],
                    [ suffix |-> "-tablet", baseFontSize |-> base.tablet,
                      sizes |-> tabletSizes ],
                    [ suffix |-> "-desktop", baseFontSize |-> base.desktop,
                      sizes |-> desktopSizes ] >>
            ELSE << [ suffix |-> "", baseFontSize |-> settings.baseFontSize,
                      sizes |-> desktopSizes ] >>,
          rules |->
            IF settings.responsiveScaling
            THEN << [ minWidth |-> <<>>, suffix |-> "-mobile" ],
                    [ minWidth |-> <<"$breakpoint-mobile">>, suffix |-> "-tablet" ],
                    [ minWidth |-> <<"$breakpoint-tablet">>, suffix |-> "-desktop" ] >>
            ELSE << [ minWidth |-> <<>>, suffix |-> "" ] >> ]

generateFigmaTokens ==
    LET base == exportBaseFontSizes
        fontWeights == exportFontWeights
    IN  [ format |-> "figma",
          fontWeights |-> [ body |-> settings.baseFontWeight, h |-> fontWeights ],
          fontSize |-> [ base |-> base.desktop, h |-> desktopSizes ],
          responsiveSizes |->
            IF settings.responsiveScaling
            THEN << [ breakpoints |-> [ mobile |-> settings.breakpointMobile,
                                        tablet |-> settings.breakpointTablet ],
                      scaleFactors |-> [ mobile |-> settings.mobileScaleFactor,
                                         tablet |-> settings.tabletScaleFactor ],
                      mobile |-> [ base |-> base.mobile, h |-> mobileSizes ],
                      tablet |-> [ base |-> base.tablet, h |-> tabletSizes ] ] >>
            ELSE <<>> ]

\* getExportCode with the sass and figma branches exchanged.
getExportCodeSwapped ==
    IF exportFormat = "css" THEN generateCSSCode
    ELSE IF exportFormat = "sass" THEN generateFigmaTokens
    ELSE generateSASSCode

\* The code for the selected format.
getExportCode ==
    IF exportFormat = "css" THEN generateCSSCode
    ELSE IF exportFormat = "sass" THEN generateSASSCode
    ELSE generateFigmaTokens

----------------------------------------------------------------------------
(* Values a user can enter.  A number Input hands Number(e.target.value)   *)
(* to its handler whatever its min, max and step attributes say; a Slider  *)
(* hands over a value of its own range min..max on its step grid.          *)

\* The values of a Slider with the given range and step among the sampled
\* stops.
SliderValues(min, max, step, stops) ==
    { v \in stops : min <= v /\ v <= max /\ (v - min) % step = 0 }

BaseFontSizeTyped == {0, 165}

BaseFontSizeStops == {80, 160, 240}

ScaleRatioTyped == {9}

ScaleRatioStops == {10, 12, 15}

FontSizeTyped == {125, 500}

FontSizeStops == {140}

CustomSizeTyped == {125}

CustomSizeStops == {200}

FontWeightTyped == {450, 1000}

FontWeightStops == {400}

CustomWeightTyped == {300}

CustomWeightStops == {900}

ScaleFactorTyped == {120}

ScaleFactorStops == {75, 90}

BreakpointTyped == {300, 900}

BreakpointStops == {480, 768}

MarkdownTexts == {"", "# A", "B"}

----------------------------------------------------------------------------
(* State updates *)

\* updateSetting spreading the default settings instead of the previous ones.
updateSettingFromDefaults(key, value) ==
    /\ settings' = [defaultSettings EXCEPT ![key] = value]
    /\ UNCHANGED <<uiVars, envVars>>

\* Update a specific setting; nothing is validated or clamped.
updateSetting(key, value) ==
    /\ settings' = [settings EXCEPT ![key] = value]
    /\ UNCHANGED <<uiVars, envVars>>

\* updateCustomRampValue pushing the value instead of storing it at index.
updateCustomRampValuePush(index, value) ==
    LET newCustomValues == Append(settings.customRampValues, value)
    IN  updateSetting("customRampValues", newCustomValues)

\* updateCustomRampValue storing the value at index and at every later index.
updateCustomRampValueFrom(index, value) ==
    LET newCustomValues == [j \in 1..Len(settings.customRampValues) |->
                              IF j >= index + 1 THEN value
                              ELSE settings.customRampValues[j]]
    IN  updateSetting("customRampValues", newCustomValues)

\* Update a custom ramp value: index is the 0-based array index.
updateCustomRampValue(index, value) ==
    LET newCustomValues == [settings.customRampValues EXCEPT ![index + 1] = value]
    IN  updateSetting("customRampValues", newCustomValues)

\* The onChange / onValueChange of a custom weight control.
updateCustomWeightValue(index, value) ==
    LET newWeights == [settings.customWeightRampValues EXCEPT ![index + 1] = value]
    IN  updateSetting("customWeightRampValues", newWeights)

----------------------------------------------------------------------------
(* Basic tab *)

BaseFontSizeInput ==
    \E v \in BaseFontSizeTyped : updateSetting("baseFontSize", v)

BaseFontSizeSlider ==
    \E v \in SliderValues(80, 240, 10, BaseFontSizeStops) :
        updateSetting("baseFontSize", v)

ScaleRatioInput ==
    /\ settings.rampAlgorithm = "modular"
    /\ \E v \in ScaleRatioTyped : updateSetting("scaleRatio", v)

ScaleRatioSlider ==
    /\ settings.rampAlgorithm = "modular"
    /\ \E v \in SliderValues(10, 20, 1, ScaleRatioStops) :
          updateSetting("scaleRatio", v)

----------------------------------------------------------------------------
(* Ramps tab *)

RampAlgorithmSelect ==
    \E a \in rampAlgorithms : updateSetting("rampAlgorithm", a)

MinFontSizeInput ==
    /\ settings.rampAlgorithm = "linear"
    /\ \E v \in FontSizeTyped : updateSetting("minFontSize", v)

\* The minFontSize Slider with max={settings.maxFontSize}.
MinFontSizeSliderInclusive ==
    /\ settings.rampAlgorithm = "linear"
    /\ \E v \in SliderValues(80, settings.maxFontSize, 10,
                               FontSizeStops \cup {80, settings.maxFontSize}) :
          updateSetting("minFontSize", v)

MinFontSizeSlider ==
    /\ settings.rampAlgorithm = "linear"
    /\ \E v \in SliderValues(80, settings.maxFontSize - 10, 10,
                               FontSizeStops \cup {80, settings.maxFontSize - 10}) :
          updateSetting("minFontSize", v)

MaxFontSizeInput ==
    /\ settings.rampAlgorithm = "linear"
    /\ \E v \in FontSizeTyped : updateSetting("maxFontSize", v)

MaxFontSizeSlider ==
    /\ settings.rampAlgorithm = "linear"
    /\ \E v \in SliderValues(settings.minFontSize + 10, 1000, 10,
                               FontSizeStops \cup {settings.minFontSize + 10, 1000}) :
          updateSetting("maxFontSize", v)

CustomSizeInput ==
    /\ settings.rampAlgorithm = "custom"
    /\ \E index \in 0..(Len(settings.customRampValues) - 1) :
          \E v \in CustomSizeTyped : updateCustomRampValue(index, v)

CustomSizeSlider ==
    /\ settings.rampAlgorithm = "custom"
    /\ \E index \in 0..(Len(settings.customRampValues) - 1) :
          \E v \in SliderValues(80, 1000, 10, CustomSizeStops) : updateCustomRampValue(index, v)

----------------------------------------------------------------------------
(* Fonts tab: font weights *)

UseWeightRampCheckbox ==
    updateSetting("useWeightRamp", ~settings.useWeightRamp)

FontWeightRampAlgorithmSelect ==
    /\ settings.useWeightRamp
    /\ \E a \in weightRampAlgorithms : updateSetting("fontWeightRampAlgorithm", a)

LinearWeightsShown ==
    settings.useWeightRamp /\ settings.fontWeightRampAlgorithm = "linear"

MinFontWeightInput ==
    /\ LinearWeightsShown
    /\ \E v \in FontWeightTyped : updateSetting("minFontWeight", v)

MinFontWeightSlider ==
    /\ LinearWeightsShown
    /\ \E v \in SliderValues(100, settings.maxFontWeight - 100, 100,
                               FontWeightStops \cup {100, settings.maxFontWeight - 100}) :
          updateSetting("minFontWeight", v)

MaxFontWeightInput ==
    /\ LinearWeightsShown
    /\ \E v \in FontWeightTyped : updateSetting("maxFontWeight", v)

MaxFontWeightSlider ==
    /\ LinearWeightsShown
    /\ \E v \in SliderValues(settings.minFontWeight + 100, 900, 100,
                               FontWeightStops \cup {settings.minFontWeight + 100, 900}) :
          updateSetting("maxFontWeight", v)

CustomWeightsShown ==
    settings.useWeightRamp /\ settings.fontWeightRampAlgorithm = "custom"

CustomWeightInput ==
    /\ CustomWeightsShown
    /\ \E index \in 0..(Len(settings.customWeightRampValues) - 1) :
          \E v \in CustomWeightTyped : updateCustomWeightValue(index, v)

CustomWeightSlider ==
    /\ CustomWeightsShown
    /\ \E index \in 0..(Len(settings.customWeightRampValues) - 1) :
          \E v \in SliderValues(100, 900, 100, CustomWeightStops) : updateCustomWeightValue(index, v)

----------------------------------------------------------------------------
(* Responsive tab *)

ResponsiveScalingCheckbox ==
    updateSetting("responsiveScaling", ~settings.responsiveScaling)

MobileScaleFactorInput ==
    /\ settings.responsiveScaling
    /\ \E v \in ScaleFactorTyped : updateSetting("mobileScaleFactor", v)

MobileScaleFactorSlider ==
    /\ settings.responsiveScaling
    /\ \E v \in SliderValues(50, 100, 5, ScaleFactorStops) :
          updateSetting("mobileScaleFactor", v)

TabletScaleFactorInput ==
    /\ settings.responsiveScaling
    /\ \E v \in ScaleFactorTyped : updateSetting("tabletScaleFactor", v)

TabletScaleFactorSlider ==
    /\ settings.responsiveScaling
    /\ \E v \in SliderValues(60, 100, 5, ScaleFactorStops) :
          updateSetting("tabletScaleFactor", v)

BreakpointMobileInput ==
    /\ settings.responsiveScaling
    /\ \E v \in BreakpointTyped : updateSetting("breakpointMobile", v)

BreakpointMobileSlider ==
    /\ settings.responsiveScaling
    /\ \E v \in SliderValues(320, settings.breakpointTablet - 1, 1,
                               BreakpointStops \cup {320, settings.breakpointTablet - 1}) :
          updateSetting("breakpointMobile", v)

BreakpointTabletInput ==
    /\ settings.responsiveScaling
    /\ \E v \in BreakpointTyped : updateSetting("breakpointTablet", v)

BreakpointTabletSlider ==
    /\ settings.responsiveScaling
    /\ \E v \in SliderValues(settings.breakpointMobile + 1, 1200, 1,
                               BreakpointStops \cup {settings.breakpointMobile + 1, 1200}) :
          updateSetting("breakpointTablet", v)

----------------------------------------------------------------------------
(* Page controls outside the settings record *)

SetActiveTab ==
    /\ \E tab \in Tabs : activeTab' = tab
    /\ UNCHANGED <<settings, exportFormat, copySuccess, previewViewport,
                   importMarkdownOpen, exportDialogOpen, markdownInput,
                   visualizationMode, previewContent, envVars>>

SetPreviewViewport ==
    /\ \E viewport \in ViewportSize : previewViewport' = viewport
    /\ UNCHANGED <<settings, activeTab, exportFormat, copySuccess,
                   importMarkdownOpen, exportDialogOpen, markdownInput,
                   visualizationMode, previewContent, envVars>>

ToggleVisualizationMode ==
    /\ visualizationMode' =
          IF visualizationMode = "spacing" THEN "none" ELSE "spacing"
    /\ UNCHANGED <<settings, activeTab, exportFormat, copySuccess, previewViewport,
                   importMarkdownOpen, exportDialogOpen, markdownInput,
                   previewContent, envVars>>

----------------------------------------------------------------------------
(* Export dialog *)

MaxClipboardWrites == 1

MaxCopyTimers == 1

OpenExportDialog ==
    /\ ~exportDialogOpen
    /\ exportDialogOpen' = TRUE
    /\ UNCHANGED <<settings, activeTab, exportFormat, copySuccess, previewViewport,
                   importMarkdownOpen, markdownInput, visualizationMode,
                   previewContent, envVars>>

DismissExportDialog ==
    /\ exportDialogOpen
    /\ exportDialogOpen' = FALSE
    /\ UNCHANGED <<settings, activeTab, exportFormat, copySuccess, previewViewport,
                   importMarkdownOpen, markdownInput, visualizationMode,
                   previewContent, envVars>>

SetExportFormat ==
    /\ exportDialogOpen
    /\ \E format \in ExportFormat : exportFormat' = format
    /\ UNCHANGED <<settings, activeTab, copySuccess, previewViewport,
                   importMarkdownOpen, exportDialogOpen, markdownInput,
                   visualizationMode, previewContent, envVars>>

\* Removes element i of a sequence.
RemoveAt(xs, i) == [j \in 1..(Len(xs) - 1) |-> IF j < i THEN xs[j] ELSE xs[j + 1]]

\* Insertion of x into the ascending sequence xs.
RECURSIVE InsertSorted(_, _)
InsertSorted(x, xs) ==
    IF xs = <<>> THEN <<x>>
    ELSE IF x <= Head(xs) THEN <<x>> \o xs
    ELSE <<Head(xs)>> \o InsertSorted(x, Tail(xs))

\* Array.prototype.sort((a, b) => a - b).
RECURSIVE Sorted(_)
Sorted(xs) == IF xs = <<>> THEN <<>> ELSE InsertSorted(Head(xs), Sorted(Tail(xs)))

\* copyToClipboard whose ramp calculation sorts the array it was handed
\* (settings.customRampValues itself) in place.
CopyToClipboardSorting ==
    /\ exportDialogOpen
    /\ Len(clipboardWrites) < MaxClipboardWrites
    /\ clipboardWrites' = Append(clipboardWrites, getExportCode)
    /\ settings' = [settings EXCEPT !.customRampValues = Sorted(@)]
    /\ UNCHANGED <<uiVars, conversions, alerts, consoleErrors,
                   clipboard, copyTimers>>

\* copyToClipboard up to its await: the export code is computed and handed
\* to navigator.clipboard.writeText.
CopyToClipboard ==
    /\ exportDialogOpen
    /\ Len(clipboardWrites) < MaxClipboardWrites
    /\ clipboardWrites' = Append(clipboardWrites, getExportCode)
    /\ UNCHANGED <<settings, uiVars, conversions, alerts, consoleErrors,
                   clipboard, copyTimers>>

\* The write resolves: copySuccess is set and a timer is started to clear it.
ClipboardWriteResolves ==
    /\ copyTimers < MaxCopyTimers
    /\ \E i \in 1..Len(clipboardWrites) :
          /\ clipboard' = <<clipboardWrites[i]>>
          /\ clipboardWrites' = RemoveAt(clipboardWrites, i)
    /\ copySuccess' = "Copied!"
    /\ copyTimers' = copyTimers + 1
    /\ UNCHANGED <<settings, activeTab, exportFormat, previewViewport,
                   importMarkdownOpen, exportDialogOpen, markdownInput,
                   visualizationMode, previewContent,
                   conversions, alerts, consoleErrors>>

\* The write rejects.
ClipboardWriteRejects ==
    /\ \E i \in 1..Len(clipboardWrites) :
          clipboardWrites' = RemoveAt(clipboardWrites, i)
    /\ copySuccess' = "Failed to copy!"
    /\ UNCHANGED <<settings, activeTab, exportFormat, previewViewport,
                   importMarkdownOpen, exportDialogOpen, markdownInput,
                   visualizationMode, previewContent,
                   conversions, alerts, consoleErrors, clipboard, copyTimers>>

\* The 2000 ms timer of a successful copy fires.
CopySuccessTimeout ==
    /\ copyTimers > 0
    /\ copyTimers' = copyTimers - 1
    /\ copySuccess' = ""
    /\ UNCHANGED <<settings, activeTab, exportFormat, previewViewport,
                   importMarkdownOpen, exportDialogOpen, markdownInput,
                   visualizationMode, previewContent,
                   conversions, alerts, consoleErrors, clipboardWrites, clipboard>>

----------------------------------------------------------------------------
(* Import dialog *)

MaxConversions == 2

MaxAlerts == 2

\* What the remark pipeline returns for the sampled markdown texts.
markdownToHtml(markdown) ==
    CASE markdown = ""    -> ""
      [] markdown = "# A" -> "<h1>A</h1>"
      [] markdown = "B"   -> "<p>B</p>"

OpenImportDialog ==
    /\ ~importMarkdownOpen
    /\ importMarkdownOpen' = TRUE
    /\ UNCHANGED <<settings, activeTab, exportFormat, copySuccess, previewViewport,
                   exportDialogOpen, markdownInput, visualizationMode,
                   previewContent, envVars>>

\* Dismissal that also drops the conversions in flight.
DismissImportDialogCancelling ==
    /\ importMarkdownOpen
    /\ importMarkdownOpen' = FALSE
    /\ conversions' = <<>>
    /\ UNCHANGED <<settings, activeTab, exportFormat, copySuccess, previewViewport,
                   exportDialogOpen, markdownInput, visualizationMode,
                   previewContent, alerts, consoleErrors, clipboardWrites,
                   clipboard, copyTimers>>

DismissImportDialog ==
    /\ importMarkdownOpen
    /\ importMarkdownOpen' = FALSE
    /\ UNCHANGED <<settings, activeTab, exportFormat, copySuccess, previewViewport,
                   exportDialogOpen, markdownInput, visualizationMode,
                   previewContent, envVars>>

EditMarkdownInput ==
    /\ importMarkdownOpen
    /\ \E text \in MarkdownTexts : markdownInput' = text
    /\ UNCHANGED <<settings, activeTab, exportFormat, copySuccess, previewViewport,
                   importMarkdownOpen, exportDialogOpen, visualizationMode,
                   previewContent, envVars>>

\* The dialog's Reset to Default button.
ResetToDefault ==
    /\ importMarkdownOpen
    /\ previewContent' = defaultPreviewContent
    /\ UNCHANGED <<settings, activeTab, exportFormat, copySuccess, previewViewport,
                   importMarkdownOpen, exportDialogOpen, markdownInput,
                   visualizationMode, envVars>>

\* The preview area's Reset to Default Text button.
ResetToDefaultText ==
    /\ previewContent' = defaultPreviewContent
    /\ UNCHANGED <<settings, activeTab, exportFormat, copySuccess, previewViewport,
                   importMarkdownOpen, exportDialogOpen, markdownInput,
                   visualizationMode, envVars>>

\* An Import button that is disabled while a conversion is pending.
ImportClickExclusive ==
    /\ importMarkdownOpen
    /\ conversions = <<>>
    /\ conversions' = Append(conversions, markdownInput)
    /\ UNCHANGED <<settings, uiVars, alerts, consoleErrors, clipboardWrites,
                   clipboard, copyTimers>>

\* The Import button's onClick up to its await: the conversion of the
\* current markdownInput is started.
ImportClick ==
    /\ importMarkdownOpen
    /\ Len(conversions) < MaxConversions
    /\ conversions' = Append(conversions, markdownInput)
    /\ UNCHANGED <<settings, uiVars, alerts, consoleErrors, clipboardWrites,
                   clipboard, copyTimers>>

\* A continuation that converts markdownInput as it is at completion.
ConversionResolvesCurrent(i) ==
    /\ i \in 1..Len(conversions)
    /\ previewContent' = markdownToHtml(markdownInput)
    /\ importMarkdownOpen' = FALSE
    /\ conversions' = RemoveAt(conversions, i)
    /\ UNCHANGED <<settings, activeTab, exportFormat, copySuccess, previewViewport,
                   exportDialogOpen, markdownInput, visualizationMode,
                   alerts, consoleErrors, clipboardWrites, clipboard, copyTimers>>

\* A conversion resolves: the handler continues after its await.
ConversionResolves(i) ==
    /\ i \in 1..Len(conversions)
    /\ previewContent' = markdownToHtml(conversions[i])
    /\ importMarkdownOpen' = FALSE
    /\ conversions' = RemoveAt(conversions, i)
    /\ UNCHANGED <<settings, activeTab, exportFormat, copySuccess, previewViewport,
                   exportDialogOpen, markdownInput, visualizationMode,
                   alerts, consoleErrors, clipboardWrites, clipboard, copyTimers>>

\* A catch block that also closes the dialog.
ConversionRejectsClosing(i) ==
    /\ i \in 1..Len(conversions)
    /\ alerts < MaxAlerts
    /\ consoleErrors' = consoleErrors + 1
    /\ alerts' = alerts + 1
    /\ importMarkdownOpen' = FALSE
    /\ conversions' = RemoveAt(conversions, i)
    /\ UNCHANGED <<settings, activeTab, exportFormat, copySuccess, previewViewport,
                   exportDialogOpen, markdownInput, visualizationMode,
                   previewContent, clipboardWrites, clipboard, copyTimers>>

\* A conversion rejects: the handler's catch block runs.
ConversionRejects(i) ==
    /\ i \in 1..Len(conversions)
    /\ alerts < MaxAlerts
    /\ consoleErrors' = consoleErrors + 1
    /\ alerts' = alerts + 1
    /\ conversions' = RemoveAt(conversions, i)
    /\ UNCHANGED <<settings, uiVars, clipboardWrites, clipboard, copyTimers>>

ImportSucceeds == \E i \in 1..Len(conversions) : ConversionResolves(i)

ImportFails == \E i \in 1..Len(conversions) : ConversionRejects(i)

----------------------------------------------------------------------------
(* Specifications *)

Init ==
    /\ settings = defaultSettings
    /\ activeTab = "basic"
    /\ exportFormat = "css"
    /\ copySuccess = ""
    /\ previewViewport = "desktop"
    /\ importMarkdownOpen = FALSE
    /\ exportDialogOpen = FALSE
    /\ markdownInput = ""
    /\ visualizationMode = "none"
    /\ previewContent = defaultPreviewContent
    /\ conversions = <<>>
    /\ alerts = 0
    /\ consoleErrors = 0
    /\ clipboardWrites = <<>>
    /\ clipboard = <<>>
    /\ copyTimers = 0

\* The size ramp form: base size, scale ratio, ramp algorithm, linear range.
Next ==
    \/ BaseFontSizeInput
    \/ BaseFontSizeSlider
    \/ ScaleRatioInput
    \/ ScaleRatioSlider
    \/ RampAlgorithmSelect
    \/ MinFontSizeInput
    \/ MinFontSizeSlider
    \/ MaxFontSizeInput
    \/ MaxFontSizeSlider
    \/ SetPreviewViewport

Spec == Init /\ [][Next]_vars

\* The custom ramps: both algorithm selects, the custom size and the custom
\* weight controls, the weight ramp checkbox and the preview viewport.
NextCustom ==
    \/ RampAlgorithmSelect
    \/ CustomSizeInput
    \/ UseWeightRampCheckbox
    \/ FontWeightRampAlgorithmSelect
    \/ CustomWeightSlider
    \/ SetPreviewViewport

SpecCustom == Init /\ [][NextCustom]_vars

\* Preview against export: base size, ramp and weight algorithms, responsive
\* scaling and its factors, the preview viewport and the export dialog.
NextExport ==
    \/ BaseFontSizeInput
    \/ RampAlgorithmSelect
    \/ UseWeightRampCheckbox
    \/ FontWeightRampAlgorithmSelect
    \/ ResponsiveScalingCheckbox
    \/ MobileScaleFactorInput
    \/ MobileScaleFactorSlider
    \/ TabletScaleFactorInput
    \/ TabletScaleFactorSlider
    \/ SetPreviewViewport
    \/ OpenExportDialog
    \/ DismissExportDialog
    \/ SetExportFormat

SpecExport == Init /\ [][NextExport]_vars

\* The responsive tab: responsive scaling, both breakpoints, the ramp
\* algorithm and the preview viewport.
NextResponsive ==
    \/ ResponsiveScalingCheckbox
    \/ BreakpointMobileInput
    \/ BreakpointMobileSlider
    \/ BreakpointTabletInput
    \/ BreakpointTabletSlider
    \/ RampAlgorithmSelect
    \/ SetPreviewViewport

SpecResponsive == Init /\ [][NextResponsive]_vars

\* Copying the export code: the export dialog, its format buttons and the
\* clipboard, with responsive scaling edited.
NextCopy ==
    \/ ResponsiveScalingCheckbox
    \/ OpenExportDialog
    \/ DismissExportDialog
    \/ SetExportFormat
    \/ CopyToClipboard
    \/ ClipboardWriteResolves
    \/ ClipboardWriteRejects
    \/ CopySuccessTimeout

SpecCopy == Init /\ [][NextCopy]_vars

\* The import dialog and its conversions, with one setting edited.
NextImport ==
    \/ OpenImportDialog
    \/ DismissImportDialog
    \/ EditMarkdownInput
    \/ ResetToDefault
    \/ ResetToDefaultText
    \/ ImportClick
    \/ ImportSucceeds
    \/ ImportFails
    \/ ResponsiveScalingCheckbox

SpecImport == Init /\ [][NextImport]_vars

\* The range sliders of the three min / max pairs, with the selects that
\* bring them on screen.
NextSliders ==
    \/ RampAlgorithmSelect
    \/ MinFontSizeSlider
    \/ MaxFontSizeSlider
    \/ FontWeightRampAlgorithmSelect
    \/ MinFontWeightSlider
    \/ MaxFontWeightSlider
    \/ BreakpointMobileSlider
    \/ BreakpointTabletSlider

SpecSliders == Init /\ [][NextSliders]_vars

\* The linear size ramp and the linear weight ramp: both algorithm selects,
\* the weight ramp checkbox and the four min / max controls of each.
NextLinear ==
    \/ RampAlgorithmSelect
    \/ MinFontSizeInput
    \/ MinFontSizeSlider
    \/ MaxFontSizeInput
    \/ MaxFontSizeSlider
    \/ UseWeightRampCheckbox
    \/ FontWeightRampAlgorithmSelect
    \/ MinFontWeightInput
    \/ MinFontWeightSlider
    \/ MaxFontWeightInput
    \/ MaxFontWeightSlider

SpecLinear == Init /\ [][NextLinear]_vars

\* The inputs of the four size algorithms: base size, scale ratio, the
\* linear range and the custom sizes, with the algorithm select.
NextRamps ==
    \/ BaseFontSizeInput
    \/ BaseFontSizeSlider
    \/ ScaleRatioSlider
    \/ RampAlgorithmSelect
    \/ MinFontSizeInput
    \/ MaxFontSizeInput
    \/ CustomSizeInput

SpecRamps == Init /\ [][NextRamps]_vars

\* The font weight section: the weight ramp checkbox, the weight algorithm
\* select, the linear weight range and the custom weights.
NextWeights ==
    \/ UseWeightRampCheckbox
    \/ FontWeightRampAlgorithmSelect
    \/ MinFontWeightInput
    \/ MinFontWeightSlider
    \/ MaxFontWeightInput
    \/ MaxFontWeightSlider
    \/ CustomWeightInput

SpecWeights == Init /\ [][NextWeights]_vars

\* Entry-wise edits of the two custom arrays: both controls of each custom
\* size, the Input of each custom weight, and the two algorithm selects.
NextCustomEdits ==
    \/ RampAlgorithmSelect
    \/ CustomSizeInput
    \/ CustomSizeSlider
    \/ FontWeightRampAlgorithmSelect
    \/ CustomWeightInput

SpecCustomEdits == Init /\ [][NextCustomEdits]_vars

\* The state outside settings: the preview viewport, the spacing
\* visualization, the export dialog with its format buttons and a failing
\* copy, and the import dialog with its textarea and imports.
NextUi ==
    \/ SetPreviewViewport
    \/ ToggleVisualizationMode
    \/ OpenExportDialog
    \/ SetExportFormat
    \/ CopyToClipboard
    \/ ClipboardWriteRejects
    \/ OpenImportDialog
    \/ EditMarkdownInput
    \/ ImportClick
    \/ ImportSucceeds

SpecUi == Init /\ [][NextUi]_vars

----------------------------------------------------------------------------
(* Properties *)

\* n is the integer nearest to num / den (den > 0), halves going up:
\* num/den - 1/2 < n <= num/den + 1/2.
IsRounded(n, num, den) ==
    /\ 2 * num - den < 2 * den * n
    /\ 2 * den * n <= 2 * num + den

\* The unscaled ramp of the selected algorithm.
unscaledRamp == calculateSizes(settings.rampAlgorithm, settings)

\* C2: under the modular algorithm the unscaled ramp is
\* H_k = round(baseFontSize * scaleRatio^(5-k)) for k = 1..4, H5 = round(baseFontSize),
\* H6 = round(0.9 * baseFontSize); with ratio 1.2 and base 16, H4 = 19.
C2_ModularFormula ==
    settings.rampAlgorithm = "modular" =>
        /\ Len(unscaledRamp) = 6
        /\ \A k \in 1..4 :
              /\ unscaledRamp[k] % 10 = 0
              /\ IsRounded(unscaledRamp[k] \div 10,
                           settings.baseFontSize * Pow(settings.scaleRatio, 5 - k),
                           10 * Pow(10, 5 - k))
        /\ unscaledRamp[5] % 10 = 0
        /\ IsRounded(unscaledRamp[5] \div 10, settings.baseFontSize, 10)
        /\ unscaledRamp[6] % 10 = 0
        /\ IsRounded(unscaledRamp[6] \div 10, 9 * settings.baseFontSize, 100)
        /\ (settings.scaleRatio = 12 /\ settings.baseFontSize = 160
               => unscaledRamp[4] = Px(19))

\* C2 witness: the modular ramp of base 24 and ratio 1.5, entered through the
\* sliders, whose H1 = round(121.5) is rounded up.
C2_Witness ==
    /\ settings.rampAlgorithm = "modular"
    /\ settings.baseFontSize = 240
    /\ settings.scaleRatio = 15
    /\ unscaledRamp = <<Px(122), Px(81), Px(54), Px(36), Px(24), Px(22)>>

\* C7: after any sequence of edits through the form controls the ranges of
\* the settings record are valid: min < max for font sizes, font weights
\* and breakpoints.
C7_RangesValid ==
    /\ settings.minFontSize < settings.maxFontSize
    /\ settings.minFontWeight < settings.maxFontWeight
    /\ settings.breakpointMobile < settings.breakpointTablet

\* C1: in every state reached by setting edits the ramp calculation yields
\* exactly six sizes and six weights, for the selected algorithms, for every
\* viewport, and for whichever size and weight algorithm could be selected.
C1_SixSizesSixWeights ==
    /\ Len(headingSizes) = 6
    /\ Len(headingWeights) = 6
    /\ \A viewport \in ViewportSize : Len(calculateSizesForViewport(viewport)) = 6
    /\ \A a \in rampAlgorithms : Len(calculateSizes(a, settings)) = 6
    /\ \A a \in weightRampAlgorithms : Len(calculateWeights(a, settings)) = 6
    /\ Len(exportFontWeights) = 6

\* C1 witness: both custom algorithms selected, after the last custom size
\* and the first custom weight were edited.
C1_Witness ==
    /\ settings.rampAlgorithm = "custom"
    /\ settings.fontWeightRampAlgorithm = "custom"
    /\ settings.customRampValues[6] = 125
    /\ settings.customWeightRampValues[1] = 900
    /\ previewViewport = "mobile"
    /\ headingSizes = <<Px(36), Px(27), Px(18), Px(15), Px(12), Px(9)>>
    /\ headingWeights = <<900, 700, 600, 600, 500, 400>>

\* C15: from the default settings, edited only through the sliders, every
\* reachable state has 8 <= minFontSize < maxFontSize <= 100,
\* 100 <= minFontWeight < maxFontWeight <= 900 and
\* 320 <= breakpointMobile < breakpointTablet <= 1200.
C15_SliderRanges ==
    /\ Px(8) <= settings.minFontSize
    /\ settings.minFontSize < settings.maxFontSize
    /\ settings.maxFontSize <= Px(100)
    /\ 100 <= settings.minFontWeight
    /\ settings.minFontWeight < settings.maxFontWeight
    /\ settings.maxFontWeight <= 900
    /\ 320 <= settings.breakpointMobile
    /\ settings.breakpointMobile < settings.breakpointTablet
    /\ settings.breakpointTablet <= 1200

\* C15 witness: each minimum moved to the top of its slider, one step below
\* its maximum, with the maxima at the top of theirs.
C15_Witness ==
    /\ settings.maxFontSize = Px(100)
    /\ settings.minFontSize = Px(99)
    /\ settings.maxFontWeight = 900
    /\ settings.minFontWeight = 800
    /\ settings.breakpointTablet = 1200
    /\ settings.breakpointMobile = 1199

----------------------------------------------------------------------------
(* Properties of the size ramps *)

RECURSIVE GCD(_, _)
GCD(a, b) == IF b = 0 THEN a ELSE GCD(b, a % b)

\* The quotient a / b of two positive fractions, in lowest terms.
Quotient(a, b) ==
    LET gn == GCD(a.num, b.num)
        gd == GCD(a.den, b.den)
        num == (a.num \div gn) * (b.den \div gd)
        den == (a.den \div gd) * (b.num \div gn)
        g == GCD(num, den)
    IN  [ num |-> num \div g, den |-> den \div g ]

\* C11: under the linear algorithm with minFontSize < maxFontSize the five
\* differences H1-H2, H2-H3, H3-H4, H4-H5, H5-H6 of the returned sizes are
\* all equal.
C11_LinearEqualSteps ==
    (settings.rampAlgorithm = "linear"
        /\ settings.minFontSize < settings.maxFontSize) =>
        \A k \in 1..4 :
            unscaledRamp[k] - unscaledRamp[k + 1]
                = unscaledRamp[k + 1] - unscaledRamp[k + 2]

\* C12: under the modular algorithm, before rounding, each of the five steps
\* H1/H2, H2/H3, H3/H4, H4/H5 and H5/H6 has the ratio scaleRatio.
C12_ModularConsistentRatio ==
    (settings.rampAlgorithm = "modular" /\ settings.baseFontSize > 0) =>
        LET terms == modularUnrounded(settings)
        IN  \A k \in 1..5 :
                LET q == Quotient(terms[k], terms[k + 1])
                IN  q.num * 10 = settings.scaleRatio * q.den

\* C14: under the fibonacci algorithm each returned size H1..H4 is the sum
\* of the two next smaller sizes, H_k = H_{k+1} + H_{k+2}.
C14_FibonacciSums ==
    settings.rampAlgorithm = "fibonacci" =>
        \A k \in 1..4 :
            unscaledRamp[k] = unscaledRamp[k + 1] + unscaledRamp[k + 2]

\* The linear size ramp of the stored range, and the linear weight ramp of
\* the stored range with the weight ramp on.
linearSizes == calculateSizes("linear", settings)

linearWeights == calculateWeights("linear", [settings EXCEPT !.useWeightRamp = TRUE])

\* H_k = round(max - (k-1) * (max - min) / 5) for k = 1..6, for sizes (whole
\* pixels) and weights, with H1 = round(max) and H6 = round(min).
LinearFormula ==
    /\ Len(linearSizes) = 6
    /\ Len(linearWeights) = 6
    /\ \A k \in 1..6 :
          /\ linearSizes[k] % 10 = 0
          /\ IsRounded(linearSizes[k] \div 10,
                       5 * settings.maxFontSize
                          - (k - 1) * (settings.maxFontSize - settings.minFontSize),
                       50)
          /\ IsRounded(linearWeights[k],
                       5 * settings.maxFontWeight
                          - (k - 1) * (settings.maxFontWeight - settings.minFontWeight),
                       5)
    /\ IsRounded(linearSizes[1] \div 10, settings.maxFontSize, 10)
    /\ IsRounded(linearSizes[6] \div 10, settings.minFontSize, 10)
    /\ linearWeights[1] = settings.maxFontWeight
    /\ linearWeights[6] = settings.minFontWeight
    /\ (settings.useWeightRamp => calculateWeights("linear", settings) = linearWeights)

\* C16 as stated: the linear ramps follow the formula and, when min <= max,
\* every returned value lies between min and max inclusive.
C16_LinearWithinMinMax ==
    /\ LinearFormula
    /\ (settings.minFontSize <= settings.maxFontSize =>
          \A k \in 1..6 : /\ settings.minFontSize <= linearSizes[k]
                          /\ linearSizes[k] <= settings.maxFontSize)
    /\ (settings.minFontWeight <= settings.maxFontWeight =>
          \A k \in 1..6 : /\ settings.minFontWeight <= linearWeights[k]
                          /\ linearWeights[k] <= settings.maxFontWeight)

\* C16 amended: the linear ramps follow the formula and, when min <= max,
\* every returned value lies between round(min) and round(max) inclusive.
C16_LinearWithinRounded ==
    /\ LinearFormula
    /\ (settings.minFontSize <= settings.maxFontSize =>
          \A k \in 1..6 :
              /\ Px(MathRound(settings.minFontSize, 10)) <= linearSizes[k]
              /\ linearSizes[k] <= Px(MathRound(settings.maxFontSize, 10)))
    /\ (settings.minFontWeight <= settings.maxFontWeight =>
          \A k \in 1..6 : /\ settings.minFontWeight <= linearWeights[k]
                          /\ linearWeights[k] <= settings.maxFontWeight)

\* C16 witness: the linear size ramp of min 8 and a typed max of 12.5, whose
\* H1 = round(12.5) = 13, with the linear weight ramp of 400..700 in use.
C16_Witness ==
    /\ settings.rampAlgorithm = "linear"
    /\ settings.minFontSize = Px(8)
    /\ settings.maxFontSize = 125
    /\ unscaledRamp = <<Px(13), Px(12), Px(11), Px(10), Px(9), Px(8)>>
    /\ settings.useWeightRamp
    /\ settings.fontWeightRampAlgorithm = "linear"
    /\ headingWeights = <<700, 640, 580, 520, 460, 400>>

\* C17: the fibonacci algorithm returns round(baseFontSize * r / 3) for r in
\* [8, 5, 3, 2, 1, 1] and the custom algorithm returns customRampValues as
\* stored; a step that keeps baseFontSize keeps the fibonacci result and a
\* step that keeps customRampValues keeps the custom result, whatever it does
\* to scaleRatio, minFontSize and maxFontSize.
C17_FibonacciAndCustom ==
    /\ [](LET fib == calculateSizes("fibonacci", settings)
              table == <<8, 5, 3, 2, 1, 1>>
          IN  /\ Len(fib) = 6
              /\ \A k \in 1..6 :
                    /\ fib[k] % 10 = 0
                    /\ IsRounded(fib[k] \div 10, settings.baseFontSize * table[k], 30)
              /\ calculateSizes("custom", settings) = settings.customRampValues)
    /\ [][settings'.baseFontSize = settings.baseFontSize =>
             calculateSizes("fibonacci", settings')
                = calculateSizes("fibonacci", settings)]_vars
    /\ [][settings'.customRampValues = settings.customRampValues =>
             calculateSizes("custom", settings')
                = calculateSizes("custom", settings)]_vars

\* C17 witness: the fibonacci ramp of a typed base of 16.5 in use, after the
\* scale ratio, the linear range and a custom size were changed.
C17_Witness ==
    /\ settings.rampAlgorithm = "fibonacci"
    /\ settings.baseFontSize = 165
    /\ settings.scaleRatio = 15
    /\ settings.minFontSize = 500
    /\ settings.maxFontSize = 125
    /\ settings.customRampValues[3] = 125
    /\ unscaledRamp = <<Px(44), Px(28), Px(17), Px(11), Px(6), Px(6)>>

\* C26: for the modular algorithm with scaleRatio >= 1, the linear algorithm
\* with minFontSize <= maxFontSize and the fibonacci algorithm, with
\* baseFontSize >= 0 and scale factors >= 0, the six sizes are non-increasing
\* from H1 to H6 at every viewport, before and after viewport scaling.
C26_NonIncreasing ==
    (/\ settings.baseFontSize >= 0
     /\ settings.mobileScaleFactor >= 0
     /\ settings.tabletScaleFactor >= 0
     /\ \/ settings.rampAlgorithm = "modular" /\ settings.scaleRatio >= 10
        \/ settings.rampAlgorithm = "linear"
              /\ settings.minFontSize <= settings.maxFontSize
        \/ settings.rampAlgorithm = "fibonacci") =>
        /\ \A k \in 1..5 : unscaledRamp[k] >= unscaledRamp[k + 1]
        /\ \A viewport \in ViewportSize :
              LET sizes == calculateSizesForViewport(viewport)
              IN  \A k \in 1..5 : sizes[k] >= sizes[k + 1]

\* C26 witness: the modular ramp of ratio 1.0 previewed on mobile, whose
\* five upper sizes coincide, before scaling (16) and after it (12).
C26_Witness ==
    /\ settings.rampAlgorithm = "modular"
    /\ settings.scaleRatio = 10
    /\ settings.baseFontSize = 160
    /\ previewViewport = "mobile"
    /\ unscaledRamp = <<Px(16), Px(16), Px(16), Px(16), Px(16), Px(14)>>
    /\ headingSizes = <<Px(12), Px(12), Px(12), Px(12), Px(12), Px(11)>>

----------------------------------------------------------------------------
(* Properties of the weight ramps *)

\* C13: in every reachable state with fontWeightRampAlgorithm = stepped the
\* six heading weights are the predefined steps [700, 700, 600, 600, 500, 400],
\* also after custom weights were edited and stepped was selected again.
C13_SteppedPredefined ==
    settings.fontWeightRampAlgorithm = "stepped" =>
        /\ headingWeights = SteppedWeights
        /\ exportFontWeights = SteppedWeights

----------------------------------------------------------------------------
(* What a document states for a viewport, and what a browser applies *)

\* The last element of a non-empty sequence.
Last(xs) == xs[Len(xs)]

\* The elements of xs that satisfy Test, in order.
RECURSIVE Filter(_, _)
Filter(Test(_), xs) ==
    IF xs = <<>> THEN <<>>
    ELSE IF Test(Head(xs)) THEN <<Head(xs)>> \o Filter(Test, Tail(xs))
    ELSE Filter(Test, Tail(xs))

ViewportLabel(viewport) ==
    CASE viewport = "mobile"  -> "Mobile styles"
      [] viewport = "tablet"  -> "Tablet styles"
      [] viewport = "desktop" -> "Desktop styles"

\* The rule of the stylesheet written for the viewport: the rule under the
\* viewport's comment, or the only rule of a non-responsive stylesheet.
CssRuleFor(doc, viewport) ==
    LET labelled == { i \in 1..Len(doc.rules) :
                        doc.rules[i].label = ViewportLabel(viewport) }
    IN  IF labelled = {} THEN doc.rules[1] ELSE doc.rules[CHOOSE i \in labelled : TRUE]

\* The variables of the preprocessor source written for the viewport.
SassVariablesFor(doc, viewport) ==
    LET suffixed == { i \in 1..Len(doc.variables) :
                        doc.variables[i].suffix = "-" \o viewport }
    IN  IF suffixed = {} THEN doc.variables[1]
        ELSE doc.variables[CHOOSE i \in suffixed : TRUE]

\* The sizes of the token tree written for the viewport.
FigmaSizesFor(doc, viewport) ==
    IF viewport = "desktop" \/ doc.responsiveSizes = <<>>
    THEN doc.fontSize
    ELSE IF viewport = "mobile" THEN doc.responsiveSizes[1].mobile
    ELSE doc.responsiveSizes[1].tablet

\* The heading sizes each document states for the viewport.
ExportedSizes(viewport) ==
    [ css   |-> CssRuleFor(generateCSSCode, viewport).sizes,
      sass  |-> SassVariablesFor(generateSASSCode, viewport).sizes,
      figma |-> FigmaSizesFor(generateFigmaTokens, viewport).h ]

\* The heading weights each document states.
ExportedWeights ==
    [ css   |-> generateCSSCode.rules[1].weights,
      sass  |-> generateSASSCode.weights,
      figma |-> generateFigmaTokens.fontWeights.h ]

\* The base font size each document states for the viewport.
ExportedBaseFontSize(viewport) ==
    [ css   |-> CssRuleFor(generateCSSCode, viewport).baseFontSize,
      sass  |-> SassVariablesFor(generateSASSCode, viewport).baseFontSize,
      figma |-> FigmaSizesFor(generateFigmaTokens, viewport).base ]

\* The rule of the stylesheet in effect at a viewport width: of the rules
\* whose media query matches (min-width: b matches widths >= b) the last.
CssRuleAt(doc, width) ==
    LET applies(rule) == rule.minWidth = <<>> \/ width >= rule.minWidth[1]
    IN  Last(Filter(applies, doc.rules))

----------------------------------------------------------------------------
(* Properties of the viewport scaling *)

SassBreakpoint(doc, name) ==
    IF name = "$breakpoint-mobile" THEN doc.breakpointMobile ELSE doc.breakpointTablet

\* The heading sizes of the compiled preprocessor source in effect at a
\* viewport width: the variables the last matching rule refers to.
SassSizesAt(doc, width) ==
    LET applies(rule) == rule.minWidth = <<>>
                            \/ width >= SassBreakpoint(doc, rule.minWidth[1])
        suffix == Last(Filter(applies, doc.rules)).suffix
        group == CHOOSE i \in 1..Len(doc.variables) : doc.variables[i].suffix = suffix
    IN  doc.variables[group].sizes

----------------------------------------------------------------------------
(* Properties of the media queries *)

\* C22: with responsive scaling on and breakpointMobile < breakpointTablet,
\* the heading sizes the stylesheet (and the compiled preprocessor source)
\* puts in effect at viewport width w are the mobile sizes for
\* w < breakpointMobile, the tablet sizes for breakpointMobile <= w <
\* breakpointTablet and the desktop sizes for w >= breakpointTablet.
C22_MediaQueryCascade ==
    (settings.responsiveScaling
        /\ settings.breakpointMobile < settings.breakpointTablet) =>
        LET css == generateCSSCode
            sass == generateSASSCode
            widths == {0, 375, 768, 2000,
                       settings.breakpointMobile - 1, settings.breakpointMobile,
                       settings.breakpointTablet - 1, settings.breakpointTablet}
        IN  /\ Len(css.rules) = 3
            /\ css.rules[1].minWidth = <<>>
            /\ css.rules[2].minWidth = <<settings.breakpointMobile>>
            /\ css.rules[3].minWidth = <<settings.breakpointTablet>>
            /\ \A w \in widths :
                  LET expected == IF w < settings.breakpointMobile THEN mobileSizes
                                  ELSE IF w < settings.breakpointTablet THEN tabletSizes
                                  ELSE desktopSizes
                  IN  /\ CssRuleAt(css, w).sizes = expected
                      /\ SassSizesAt(sass, w) = expected

\* C22 witness: the mobile breakpoint moved to 767, one below the tablet
\* breakpoint, with the fibonacci ramp: at 767 the tablet sizes are in
\* effect, at 768 the desktop sizes.
C22_Witness ==
    /\ settings.responsiveScaling
    /\ settings.breakpointMobile = 767
    /\ settings.breakpointTablet = 768
    /\ settings.rampAlgorithm = "fibonacci"
    /\ CssRuleAt(generateCSSCode, 767).sizes = tabletSizes
    /\ CssRuleAt(generateCSSCode, 768).sizes = desktopSizes
    /\ CssRuleAt(generateCSSCode, 766).sizes = mobileSizes
    /\ tabletSizes # desktopSizes
    /\ mobileSizes # tabletSizes

\* The variables of the preprocessor source whose names end in -mobile,
\* -tablet or -desktop.
SassViewportVariables(doc) ==
    (IF "breakpointMobile" \in DOMAIN doc THEN {"$breakpoint-mobile"} ELSE {})
    \cup (IF "breakpointTablet" \in DOMAIN doc THEN {"$breakpoint-tablet"} ELSE {})
    \cup UNION { {"$base-font-size" \o doc.variables[i].suffix,
                  "$h1-size" \o doc.variables[i].suffix,
                  "$h2-size" \o doc.variables[i].suffix,
                  "$h3-size" \o doc.variables[i].suffix,
                  "$h4-size" \o doc.variables[i].suffix,
                  "$h5-size" \o doc.variables[i].suffix,
                  "$h6-size" \o doc.variables[i].suffix} :
                    i \in { n \in 1..Len(doc.variables) : doc.variables[n].suffix # "" } }

\* The media queries of a document's rules.
MediaQueries(doc) ==
    { i \in 1..Len(doc.rules) : doc.rules[i].minWidth # <<>> }

\* C23: responsive sections are emitted if and only if responsiveScaling is
\* on.  Off: the stylesheet is one :root block with the desktop sizes and no
\* media query, the preprocessor source defines no -mobile / -tablet /
\* -desktop variable and no media query, the token tree has no responsiveSizes.
\* On: each document carries the mobile, tablet and desktop sizes and both
\* breakpoints.
C23_ResponsiveSectionsIff ==
    LET css == generateCSSCode
        sass == generateSASSCode
        figma == generateFigmaTokens
    IN  /\ ~settings.responsiveScaling =>
              /\ Len(css.rules) = 1
              /\ css.rules[1].sizes = desktopSizes
              /\ MediaQueries(css) = {}
              /\ SassViewportVariables(sass) = {}
              /\ MediaQueries(sass) = {}
              /\ figma.responsiveSizes = <<>>
        /\ settings.responsiveScaling =>
              /\ Len(css.rules) = 3
              /\ css.rules[1].sizes = mobileSizes
              /\ css.rules[2].sizes = tabletSizes
              /\ css.rules[3].sizes = desktopSizes
              /\ css.rules[2].minWidth = <<settings.breakpointMobile>>
              /\ css.rules[3].minWidth = <<settings.breakpointTablet>>
              /\ Len(sass.variables) = 3
              /\ SassVariablesFor(sass, "mobile").sizes = mobileSizes
              /\ SassVariablesFor(sass, "tablet").sizes = tabletSizes
              /\ SassVariablesFor(sass, "desktop").sizes = desktopSizes
              /\ sass.breakpointMobile = settings.breakpointMobile
              /\ sass.breakpointTablet = settings.breakpointTablet
              /\ Cardinality(MediaQueries(sass)) = 2
              /\ figma.fontSize.h = desktopSizes
              /\ Len(figma.responsiveSizes) = 1
              /\ figma.responsiveSizes[1].mobile.h = mobileSizes
              /\ figma.responsiveSizes[1].tablet.h = tabletSizes
              /\ figma.responsiveSizes[1].breakpoints.mobile = settings.breakpointMobile
              /\ figma.responsiveSizes[1].breakpoints.tablet = settings.breakpointTablet

----------------------------------------------------------------------------
(* Properties of the export *)

\* C4: for every viewport and heading level, the size each export document
\* states for the viewport is the size the preview uses at that viewport,
\* and the weights each document states are the weights of the preview.
C4_ExportMatchesPreviewRamp ==
    LET sizes == ExportedSizes(previewViewport)
        weights == ExportedWeights
        preview == previewStyles
    IN  \A f \in ExportFormat :
          /\ Len(sizes[f]) = 6
          /\ \A k \in HeadingLevels : sizes[f][k] = preview.sizes[k]
          /\ weights[f] = preview.weights

\* C4 witness: the weight ramp switched off with the linear weight algorithm
\* selected, a typed mobile factor, previewing the mobile viewport.
C4_Witness ==
    /\ ~settings.useWeightRamp
    /\ settings.fontWeightRampAlgorithm = "linear"
    /\ settings.responsiveScaling
    /\ settings.mobileScaleFactor = 120
    /\ previewViewport = "mobile"
    /\ previewStyles.weights = SteppedWeights
    /\ ExportedSizes("mobile").css = <<Px(40), Px(34), Px(28), Px(23), Px(19), Px(17)>>
    /\ ExportedSizes("mobile").css # ExportedSizes("desktop").css

\* C5: for every viewport the base font size each export document states
\* for the viewport is the --base-font-size the preview applies there.
C5_ExportMatchesPreviewBase ==
    LET base == ExportedBaseFontSize(previewViewport)
    IN  \A f \in ExportFormat : base[f] = previewStyles.baseFontSize

\* C6: with responsive scaling on, the exported stylesheet evaluated at the
\* width of the preview pane (375px mobile, 768px tablet) selects the
\* heading sizes the preview displays.
C6_StylesheetAtPreviewWidth ==
    (settings.responsiveScaling /\ getPreviewWidth # <<>>) =>
        CssRuleAt(generateCSSCode, getPreviewWidth[1]).sizes = previewStyles.sizes

\* C27: the export document depends only on settings and exportFormat: a
\* document computed for a copy in an earlier state, under the same settings,
\* is the document its format has in the current state, however
\* previewViewport, visualizationMode, previewContent, markdownInput,
\* copySuccess and the dialog flags have changed since.
C27_ExportIndependentOfUi ==
    settings = defaultSettings =>
        \A i \in 1..Len(clipboardWrites) :
            LET written == clipboardWrites[i]
            IN  /\ written.format = "css" => written = generateCSSCode
                /\ written.format = "sass" => written = generateSASSCode
                /\ written.format = "figma" => written = generateFigmaTokens
                /\ written.format = exportFormat => written = getExportCode

\* C27 witness: a stylesheet computed for a copy while the preview viewport,
\* the visualization, the preview content, the textarea, the copy message,
\* both dialog flags and the selected format have left their initial values.
C27_Witness ==
    /\ clipboardWrites # <<>>
    /\ clipboardWrites[1].format = "css"
    /\ previewViewport = "mobile"
    /\ visualizationMode = "spacing"
    /\ previewContent = "<h1>A</h1>"
    /\ markdownInput = "B"
    /\ copySuccess = "Failed to copy!"
    /\ importMarkdownOpen
    /\ exportDialogOpen
    /\ exportFormat = "sass"

\* C8: exportFormat starts as css and is always css, sass or figma;
\* getExportCode is the document of the selected format; a change of
\* exportFormat changes no setting.
C8_ExportFormat ==
    /\ exportFormat = "css"
    /\ [](/\ exportFormat \in ExportFormat
          /\ getExportCode.format = exportFormat
          /\ (exportFormat = "css" => getExportCode = generateCSSCode)
          /\ (exportFormat = "sass" => getExportCode = generateSASSCode)
          /\ (exportFormat = "figma" => getExportCode = generateFigmaTokens))
    /\ [][exportFormat' # exportFormat => settings' = settings]_vars

\* C8 witness: the token tree selected for edited settings.
C8_Witness ==
    /\ exportDialogOpen
    /\ exportFormat = "figma"
    /\ settings.baseFontSize = 165
    /\ ~settings.responsiveScaling
    /\ getExportCode.format = "figma"
    /\ getExportCode.responsiveSizes = <<>>

C19_WeightRampOff ==
    /\ [](~settings.useWeightRamp =>
            /\ previewStyles.weights = <<700, 700, 600, 600, 500, 400>>
            /\ \A f \in ExportFormat :
                  ExportedWeights[f] = <<700, 700, 600, 600, 500, 400>>
            /\ \A a \in weightRampAlgorithms :
                  calculateWeights(a, settings) = <<700, 700, 600, 600, 500, 400>>)
    /\ [][settings'.useWeightRamp # settings.useWeightRamp =>
             /\ settings'.fontWeightRampAlgorithm = settings.fontWeightRampAlgorithm
             /\ settings'.minFontWeight = settings.minFontWeight
             /\ settings'.maxFontWeight = settings.maxFontWeight
             /\ settings'.customWeightRampValues = settings.customWeightRampValues]_vars
    /\ [][(~settings.useWeightRamp /\ settings'.useWeightRamp) =>
             headingWeights' =
                 calculateWeights(settings.fontWeightRampAlgorithm,
                                  [settings EXCEPT !.useWeightRamp = TRUE])]_vars

\* C19 witness: the weight ramp switched off with the linear algorithm
\* selected, a typed range of 450..1000 and an edited custom weight stored.
C19_Witness ==
    /\ ~settings.useWeightRamp
    /\ settings.fontWeightRampAlgorithm = "linear"
    /\ settings.minFontWeight = 450
    /\ settings.maxFontWeight = 1000
    /\ settings.customWeightRampValues[1] = 300
    /\ headingWeights = SteppedWeights
    /\ ExportedWeights.figma = SteppedWeights

----------------------------------------------------------------------------
(* Properties of the state updates *)

\* C20: a step that changes settings changes exactly one field of it, to
\* the value the control handed over (a typed value is stored as typed,
\* inside or outside the range of the field's slider), and leaves
\* exportFormat, previewViewport, previewContent, markdownInput, the dialog
\* flags and every other UI state variable unchanged.
C20_UpdateSettingFrame ==
    [][settings' # settings =>
          /\ \E key \in DOMAIN settings :
                /\ settings'[key] # settings[key]
                /\ settings' = [settings EXCEPT ![key] = settings'[key]]
          /\ DOMAIN settings' = DOMAIN settings
          /\ (settings'.baseFontSize # settings.baseFontSize =>
                settings'.baseFontSize \in BaseFontSizeTyped)
          /\ (settings'.mobileScaleFactor # settings.mobileScaleFactor =>
                settings'.mobileScaleFactor \in ScaleFactorTyped \cup ScaleFactorStops)
          /\ (settings'.tabletScaleFactor # settings.tabletScaleFactor =>
                settings'.tabletScaleFactor \in ScaleFactorTyped \cup ScaleFactorStops)
          /\ exportFormat' = exportFormat
          /\ previewViewport' = previewViewport
          /\ previewContent' = previewContent
          /\ markdownInput' = markdownInput
          /\ importMarkdownOpen' = importMarkdownOpen
          /\ exportDialogOpen' = exportDialogOpen
          /\ UNCHANGED uiVars]_vars

\* C20 witness: a base font size of 0 and a mobile factor of 1.2 stored as
\* typed, with the export dialog open on the preprocessor format and the
\* tablet viewport previewed.
C20_Witness ==
    /\ settings.baseFontSize = 0
    /\ settings.mobileScaleFactor = 120
    /\ settings.tabletScaleFactor = defaultSettings.tabletScaleFactor
    /\ settings.rampAlgorithm = "linear"
    /\ exportDialogOpen
    /\ exportFormat = "sass"
    /\ previewViewport = "tablet"

\* C21: a custom size edit replaces exactly one entry of customRampValues by
\* the value handed over and keeps the other five entries and the length 6,
\* and a custom weight edit does the same on customWeightRampValues; so
\* every entry holds its default or the value of an edit made to its index.
C21_CustomEditsOneEntry ==
    /\ [](/\ Len(settings.customRampValues) = 6
          /\ Len(settings.customWeightRampValues) = 6
          /\ \A j \in 1..6 :
                /\ settings.customRampValues[j] \in
                      {defaultSettings.customRampValues[j]}
                         \cup CustomSizeTyped \cup CustomSizeStops
                /\ settings.customWeightRampValues[j] \in
                      {defaultSettings.customWeightRampValues[j]}
                         \cup CustomWeightTyped)
    /\ [][settings'.customRampValues # settings.customRampValues =>
             /\ Len(settings'.customRampValues) = 6
             /\ \E i \in 1..6 :
                   /\ settings'.customRampValues[i] \in CustomSizeTyped \cup CustomSizeStops
                   /\ \A j \in 1..6 :
                         j # i => settings'.customRampValues[j]
                                     = settings.customRampValues[j]
             /\ settings'.customWeightRampValues = settings.customWeightRampValues]_vars
    /\ [][settings'.customWeightRampValues # settings.customWeightRampValues =>
             /\ Len(settings'.customWeightRampValues) = 6
             /\ \E i \in 1..6 :
                   /\ settings'.customWeightRampValues[i] \in CustomWeightTyped
                   /\ \A j \in 1..6 :
                         j # i => settings'.customWeightRampValues[j]
                                     = settings.customWeightRampValues[j]
             /\ settings'.customRampValues = settings.customRampValues]_vars

\* C21 witness: H1 edited through the Input, H3 through the Slider, H6
\* through both (the Slider last), and the H2 weight typed; the rest default.
C21_Witness ==
    /\ settings.customRampValues = <<125, 360, 200, 200, 160, 200>>
    /\ settings.customWeightRampValues = <<700, 300, 600, 600, 500, 400>>
    /\ settings.rampAlgorithm = "custom"
    /\ settings.fontWeightRampAlgorithm = "custom"

----------------------------------------------------------------------------
(* Properties of the markdown import *)

C24_ImportSuccessAndReset ==
    /\ [][Len(conversions') > Len(conversions) =>
             /\ Last(conversions') = markdownInput
             /\ UNCHANGED <<settings, uiVars>>]_vars
    /\ [][\A i \in 1..Len(conversions) :
             ConversionResolves(i) =>
                 /\ previewContent' = markdownToHtml(conversions[i])
                 /\ importMarkdownOpen' = FALSE
                 /\ markdownInput' = markdownInput
                 /\ settings' = settings]_vars
    /\ [][(ResetToDefault \/ ResetToDefaultText) =>
             /\ previewContent' = defaultPreviewContent
             /\ importMarkdownOpen' = importMarkdownOpen
             /\ markdownInput' = markdownInput
             /\ UNCHANGED <<settings, activeTab, exportFormat, copySuccess,
                            previewViewport, exportDialogOpen,
                            visualizationMode, envVars>>]_vars

\* C24 witness: the import of "# A" completed after the markdown was edited
\* to "B": the preview holds the HTML of "# A", the dialog is closed and the
\* edited markdown is kept.
C24_Witness ==
    /\ previewContent = "<h1>A</h1>"
    /\ markdownInput = "B"
    /\ ~importMarkdownOpen
    /\ conversions = <<>>
    /\ alerts = 0
    /\ settings = defaultSettings

\* C25: the Import button stays enabled while a conversion is pending; the
\* pending conversions can complete in any order, each completion sets
\* previewContent to its own result and leaves the others pending, so the
\* conversion that completes last decides the final previewContent.
C25_CompletionOrder ==
    /\ [](importMarkdownOpen /\ Len(conversions) < MaxConversions
            => ENABLED ImportClick)
    /\ [](\A i \in 1..Len(conversions) :
            ENABLED (ConversionResolves(i)
                       /\ previewContent' = markdownToHtml(conversions[i])))
    /\ [][\A i \in 1..Len(conversions) :
             ConversionResolves(i) =>
                 /\ previewContent' = markdownToHtml(conversions[i])
                 /\ conversions' = RemoveAt(conversions, i)]_vars

\* C25 witness: two imports in flight, "# A" clicked before "B", and the
\* preview holding the result of an import of "B" that completed earlier.
C25_Witness ==
    /\ conversions = <<"# A", "B">>
    /\ previewContent = "<p>B</p>"
    /\ importMarkdownOpen

\* C10: a pending conversion is never cancelled: Reset to Default, dismissing
\* the dialog and editing markdownInput leave it pending, it can always
\* still resolve, and when it resolves previewContent becomes the converted
\* HTML and importMarkdownOpen becomes false, whatever they were.
C10_NoCancellation ==
    /\ [](\A i \in 1..Len(conversions) : ENABLED ConversionResolves(i))
    /\ [][(ResetToDefault \/ ResetToDefaultText \/ DismissImportDialog
             \/ EditMarkdownInput) => conversions' = conversions]_vars
    /\ [][\A i \in 1..Len(conversions) :
             ConversionResolves(i) =>
                 /\ previewContent' = markdownToHtml(conversions[i])
                 /\ importMarkdownOpen' = FALSE]_vars

\* C10 witness: a conversion of "# A" pending after the dialog was dismissed
\* with the markdown edited to "B" and the preview reset.
C10_Witness ==
    /\ conversions = <<"# A">>
    /\ ~importMarkdownOpen
    /\ markdownInput = "B"
    /\ previewContent = defaultPreviewContent
    /\ alerts = 1

====
